---- MODULE Spec2Model ----
(***************************************************************************)
(* Model of xbob/db/gbu/models.py: the GBU catalog (Client, File,          *)
(* Annotation, Subworld, Protocol and the two association tables), the     *)
(* derivation of a client id from a signature, and File.make_path/save.    *)
(*                                                                         *)
(* Python strings are sequences of one-character strings.  An optional     *)
(* argument is None or PyStr(s).  A call's outcome is recorded in `last`.  *)
(***************************************************************************)
EXTENDS Integers, Sequences, FiniteSets, TLC

(***************************************************************************)
(* Bounds of the model.                                                    *)
(***************************************************************************)
MaxSuffixLen == 3
MaxPathLen == 2
MaxEyesLen == 5
MaxClients == 2
MaxFiles == 2
MaxAnnotations == 2
MaxSubworlds == 2
MaxProtocols == 2
MaxOps == 6

(***************************************************************************)
(* Python values.                                                          *)
(***************************************************************************)
None == <<"None">>
PyStr(s) == <<"str", s>>
PyInt(n) == <<"int", n>>
\* a float with one binary digit after the point: HalfFloat(k) is k / 2
HalfFloat(k) == <<"float", k>>

RECURSIVE SeqsUpTo(_, _)
SeqsUpTo(S, n) ==
  IF n = 0 THEN {<<>>}
  ELSE LET shorter == SeqsUpTo(S, n - 1)
       IN shorter \cup {Append(s, c) : s \in {t \in shorter : Len(t) = n - 1}, c \in S}

DigitChars == <<"0", "1", "2", "3", "4", "5", "6", "7", "8", "9">>
Digit == {DigitChars[i] : i \in 1..10}
DigitValue(c) == (CHOOSE i \in 1..10 : DigitChars[i] = c) - 1
Whitespace == {" "}

RECURSIVE lstrip(_)
lstrip(s) == IF s # <<>> /\ Head(s) \in Whitespace THEN lstrip(Tail(s)) ELSE s

RECURSIVE rstrip(_)
rstrip(s) ==
  IF s # <<>> /\ s[Len(s)] \in Whitespace THEN rstrip(SubSeq(s, 1, Len(s) - 1)) ELSE s

strip(s) == rstrip(lstrip(s))

RECURSIVE DecimalValue(_)
DecimalValue(ds) ==
  IF ds = <<>> THEN 0
  ELSE 10 * DecimalValue(SubSeq(ds, 1, Len(ds) - 1)) + DigitValue(ds[Len(ds)])

\* variant of int_str: a parser that skips what is no digit and never raises
int_str_lenient(s) ==
  LET ds == SelectSeq(s, LAMBDA c : c \in Digit)
  IN [ok |-> TRUE, v |-> DecimalValue(ds)]

\* int(s) of a str, base 10: surrounding whitespace is stripped, one leading
\* sign is accepted, the rest must be a non-empty run of digits; anything
\* else raises ValueError (ok = FALSE).
int_str(s) ==
  LET t == strip(s)
      signed == t # <<>> /\ Head(t) \in {"+", "-"}
      body == IF signed THEN Tail(t) ELSE t
      mag == DecimalValue(body)
  IN IF body # <<>> /\ \A i \in 1..Len(body) : body[i] \in Digit
     THEN [ok |-> TRUE, v |-> IF signed /\ Head(t) = "-" THEN 0 - mag ELSE mag]
     ELSE [ok |-> FALSE, v |-> 0]

\* int(x) of an int, a float (truncation toward zero) or a str
int(x) ==
  CASE x[1] = "int" -> [ok |-> TRUE, v |-> x[2]]
    [] x[1] = "float" ->
         [ok |-> TRUE, v |-> IF x[2] >= 0 THEN x[2] \div 2 ELSE 0 - ((0 - x[2]) \div 2)]
    [] x[1] = "str" -> int_str(x[2])

\* s[n:]
SliceFrom(s, n) == SubSeq(s, n + 1, Len(s))

TagLen == 4

\* variant of client_id_from_signature: the slice starts one character late
client_id_from_signature_off_by_one(signature) ==
  int_str(SliceFrom(signature, TagLen + 1))

client_id_from_signature(signature) == int_str(SliceFrom(signature, TagLen))

(***************************************************************************)
(* Constructors.  exc is "None" when __init__ returns, else the exception  *)
(* it raises; obj is the constructed object (meaningful when exc = "None").*)
(***************************************************************************)
NoObject == [missing |-> TRUE]

Client__init__(signature) ==
  LET id == client_id_from_signature(signature)
  IN IF id.ok
     THEN [exc |-> "None", obj |-> [signature |-> signature, id |-> id.v]]
     ELSE [exc |-> "ValueError", obj |-> NoObject]

File__init__(presentation, signature, path) ==
  LET id == client_id_from_signature(signature)
  IN IF id.ok
     THEN [exc |-> "None",
           obj |-> [presentation |-> presentation, client_id |-> id.v, path |-> path,
                    signature |-> signature]]
     ELSE [exc |-> "ValueError", obj |-> NoObject]

\* Annotation.__init__: file_id is assigned, then the assert on len(eyes),
\* then the four coercions in order; the first one that fails raises.
AnnotationFields(eyes) ==
  [re_x |-> int(eyes[1]), re_y |-> int(eyes[2]), le_x |-> int(eyes[3]), le_y |-> int(eyes[4])]

EyesArity == 4

\* variant of Annotation.__init__: the assert is missing, so only the
\* indexing of eyes[0..3] can fail
Annotation__init__NoAssert(presentation, eyes) ==
  IF Len(eyes) < EyesArity
  THEN [exc |-> "IndexError", obj |-> NoObject]
  ELSE LET f == AnnotationFields(eyes)
       IN IF f.re_x.ok /\ f.re_y.ok /\ f.le_x.ok /\ f.le_y.ok
          THEN [exc |-> "None",
                obj |-> [file_id |-> presentation, re_x |-> f.re_x.v, re_y |-> f.re_y.v,
                         le_x |-> f.le_x.v, le_y |-> f.le_y.v]]
          ELSE [exc |-> "ValueError", obj |-> NoObject]

Annotation__init__(presentation, eyes) ==
  IF Len(eyes) # EyesArity
  THEN [exc |-> "AssertionError", obj |-> NoObject]
  ELSE LET f == AnnotationFields(eyes)
       IN IF f.re_x.ok /\ f.re_y.ok /\ f.le_x.ok /\ f.le_y.ok
          THEN [exc |-> "None",
                obj |-> [file_id |-> presentation, re_x |-> f.re_x.v, re_y |-> f.re_y.v,
                         le_x |-> f.le_x.v, le_y |-> f.le_y.v]]
          ELSE [exc |-> "ValueError", obj |-> NoObject]

Subworld__init__(name) == [exc |-> "None", obj |-> [name |-> name]]

Protocol__init__(name, purpose) ==
  [exc |-> "None", obj |-> [name |-> name, purpose |-> purpose]]

(***************************************************************************)
(* File.make_path and File.save.                                           *)
(***************************************************************************)
Sep == "/"

\* variant of os.path.join: plain concatenation around one separator
os_path_join_concat(a, b) == a \o <<Sep>> \o b

\* os.path.join(a, b) of posixpath
os_path_join(a, b) ==
  IF b # <<>> /\ Head(b) = Sep THEN b
  ELSE IF a = <<>> \/ a[Len(a)] = Sep THEN a \o b
  ELSE a \o <<Sep>> \o b

\* the index after the last separator of p (0 when there is none): p.rfind('/') + 1
RECURSIVE AfterLastSep(_)
AfterLastSep(p) ==
  IF p = <<>> THEN 0
  ELSE IF p[Len(p)] = Sep THEN Len(p)
  ELSE AfterLastSep(SubSeq(p, 1, Len(p) - 1))

RECURSIVE rstripSep(_)
rstripSep(s) ==
  IF s # <<>> /\ s[Len(s)] = Sep THEN rstripSep(SubSeq(s, 1, Len(s) - 1)) ELSE s

\* os.path.dirname(p) of posixpath
os_path_dirname(p) ==
  LET head == SubSeq(p, 1, AfterLastSep(p))
  IN IF head # <<>> /\ \E i \in 1..Len(head) : head[i] # Sep THEN rstripSep(head) ELSE head

\* Python's "not x" for None and str
Not(x) == x = None \/ x = PyStr(<<>>)

\* File.make_path(self, directory=None, extension=None): the value returned
make_path(self, directory, extension) ==
  LET d == IF Not(directory) THEN <<>> ELSE directory[2]
      e == IF Not(extension) THEN <<>> ELSE extension[2]
  IN os_path_join(d, self.path \o e)

\* the File object after make_path returns: only the locals are rebound
make_path_self(self, directory, extension) == self

\* The names bound in the module's namespace when save runs: the imports of
\* lines 23-27 and the module's own definitions.  "from bob.db... import"
\* binds Enum and relationship, not bob.
ModuleGlobals ==
  {"os", "Table", "Column", "Integer", "String", "ForeignKey", "or_", "and_",
   "Enum", "relationship", "backref", "declarative_base", "Base",
   "client_id_from_signature", "Client", "Annotation", "File",
   "subworld_file_association", "Subworld", "protocol_file_association", "Protocol"}

SaveDefaultExtension == PyStr(<<".", "h", "d", "f", "5">>)

\* File.save(self, data, directory=None, extension='.hdf5'): the exception it
\* raises ("None": it returns) and the calls the storage collaborator has
\* received, in order.
save(self, data, directory, extension) ==
  LET path == make_path(self, directory, extension)
  IN IF "bob" \notin ModuleGlobals
     THEN [exc |-> "NameError", calls |-> <<>>]
     ELSE [exc |-> "None",
           calls |-> << <<"makedirs_safe", os_path_dirname(path)>>,
                        <<"save", data, path>> >>]

(***************************************************************************)
(* The catalog: the five tables, the two association tables, the store's   *)
(* foreign-key enforcement (a setting of the store, fixed for a run), the  *)
(* calls the storage collaborator has received, and the last call made.    *)
(***************************************************************************)
VARIABLES client, file, annotation, subworld, protocol,
          subworld_file_association, protocol_file_association,
          subworld_files, file_subworlds, protocol_files, file_protocols,
          fk_enforced, io, last, arg, nops

\* the rows of the five tables
entities == <<client, file, annotation, subworld, protocol>>

\* the two association tables and the four collections the relationships of
\* lines 160 and 188 declare: Subworld.files with its backref File.subworlds,
\* Protocol.files with its backref File.protocols.  A collection is modelled
\* by the set of pairs <<owner id, member id>> it holds.
rel == <<subworld_file_association, protocol_file_association,
         subworld_files, file_subworlds, protocol_files, file_protocols>>

tables == <<entities, rel>>

vars == <<client, file, annotation, subworld, protocol,
          subworld_file_association, protocol_file_association,
          subworld_files, file_subworlds, protocol_files, file_protocols,
          fk_enforced, io, last, arg, nops>>

Absent == <<"absent">>
Default(x, d) == IF x = Absent THEN d ELSE x

Call(op, args, exc, obj) == [op |-> op, args |-> args, exc |-> exc, obj |-> obj]

\* the id the store assigns to a new row of a table with an integer primary key
NextId(table) == Cardinality(table) + 1

\* variant of ClientInsertOk: id is no primary key
ClientInsertOkNoPrimaryKey(obj) == \A c \in client : c.signature # obj.signature

\* client: id is the primary key, signature is unique
ClientInsertOk(obj) ==
  /\ \A c \in client : c.id # obj.id
  /\ \A c \in client : c.signature # obj.signature

\* variant of FileInsertOk: path is not unique
FileInsertOkNoUniquePath(obj) ==
  /\ \A f \in file : f.presentation # obj.presentation
  /\ fk_enforced => \E c \in client : c.id = obj.client_id

\* file: path and presentation are unique, client_id references client.id
FileInsertOk(obj) ==
  /\ \A f \in file : f.path # obj.path
  /\ \A f \in file : f.presentation # obj.presentation
  /\ fk_enforced => \E c \in client : c.id = obj.client_id

\* annotation: file_id references file.id; no column is unique
AnnotationInsertOk(obj) == fk_enforced => \E f \in file : f.id = obj.file_id

FileRow(id, obj) ==
  [id |-> id, client_id |-> obj.client_id, path |-> obj.path,
   presentation |-> obj.presentation]

AnnotationRow(id, obj) ==
  [id |-> id, file_id |-> obj.file_id, re_x |-> obj.re_x, re_y |-> obj.re_y,
   le_x |-> obj.le_x, le_y |-> obj.le_y]

\* client_id_from_signature(signature), called on its own
DeriveId(signature) ==
  LET id == client_id_from_signature(signature)
  IN /\ last' = IF id.ok
                THEN Call("client_id_from_signature", <<signature>>, "None", [id |-> id.v])
                ELSE Call("client_id_from_signature", <<signature>>, "ValueError", NoObject)
     /\ UNCHANGED <<tables, fk_enforced, io, arg>>

\* Client(signature), then the insertion of the new row
AddClient(signature) ==
  /\ Cardinality(client) < MaxClients
  /\ LET r == Client__init__(signature)
     IN IF r.exc # "None"
        THEN /\ last' = Call("Client", <<signature>>, r.exc, NoObject)
             /\ UNCHANGED client
        ELSE IF ClientInsertOk(r.obj)
        THEN /\ client' = client \cup {r.obj}
             /\ last' = Call("Client", <<signature>>, "None", r.obj)
        ELSE /\ last' = Call("Client", <<signature>>, "IntegrityError", r.obj)
             /\ UNCHANGED client
  /\ UNCHANGED <<file, annotation, subworld, protocol, rel, fk_enforced, io, arg>>

\* File(presentation, signature, path), then the insertion of the new row
AddFile(presentation, signature, path) ==
  /\ Cardinality(file) < MaxFiles
  /\ LET r == File__init__(presentation, signature, path)
     IN IF r.exc # "None"
        THEN /\ last' = Call("File", <<presentation, signature, path>>, r.exc, NoObject)
             /\ UNCHANGED file
        ELSE IF FileInsertOk(r.obj)
        THEN /\ file' = file \cup {FileRow(NextId(file), r.obj)}
             /\ last' = Call("File", <<presentation, signature, path>>, "None", r.obj)
        ELSE /\ last' = Call("File", <<presentation, signature, path>>,
                             "IntegrityError", r.obj)
             /\ UNCHANGED file
  /\ UNCHANGED <<client, annotation, subworld, protocol, rel, fk_enforced, io, arg>>

\* Annotation(file_reference, eyes), then the insertion of the new row
AddAnnotation(file_reference, eyes) ==
  /\ Cardinality(annotation) < MaxAnnotations
  /\ LET r == Annotation__init__(file_reference, eyes)
     IN IF r.exc # "None"
        THEN /\ last' = Call("Annotation", <<file_reference, eyes>>, r.exc, NoObject)
             /\ UNCHANGED annotation
        ELSE IF AnnotationInsertOk(r.obj)
        THEN /\ annotation' = annotation \cup {AnnotationRow(NextId(annotation), r.obj)}
             /\ last' = Call("Annotation", <<file_reference, eyes>>, "None", r.obj)
        ELSE /\ last' = Call("Annotation", <<file_reference, eyes>>, "IntegrityError", r.obj)
             /\ UNCHANGED annotation
  /\ UNCHANGED <<client, file, subworld, protocol, rel, fk_enforced, io, arg>>

\* f.make_path(directory, extension) on the File of row f
MakePath(f, directory, extension) ==
  /\ f \in file
  /\ file' = (file \ {f}) \cup {make_path_self(f, directory, extension)}
  /\ last' = Call("make_path", <<f, directory, extension>>, "None",
                  [ret |-> make_path(f, directory, extension)])
  /\ UNCHANGED <<client, annotation, subworld, protocol, rel, fk_enforced, io, arg>>

\* Subworld(name), then the insertion of the new row
AddSubworld(name) ==
  /\ Cardinality(subworld) < MaxSubworlds
  /\ LET r == Subworld__init__(name)
     IN /\ subworld' = subworld \cup {[id |-> NextId(subworld), name |-> r.obj.name]}
        /\ last' = Call("Subworld", <<name>>, "None", r.obj)
  /\ UNCHANGED <<client, file, annotation, protocol, rel, fk_enforced, io, arg>>

\* Protocol(name, purpose), then the insertion of the new row
AddProtocol(name, purpose) ==
  /\ Cardinality(protocol) < MaxProtocols
  /\ LET r == Protocol__init__(name, purpose)
     IN /\ protocol' = protocol \cup {[id |-> NextId(protocol), name |-> r.obj.name,
                                      purpose |-> r.obj.purpose]}
        /\ last' = Call("Protocol", <<name, purpose>>, "None", r.obj)
  /\ UNCHANGED <<client, file, annotation, subworld, rel, fk_enforced, io, arg>>

\* variant of backref: a relationship declared without its backref
backref_missing(other_side, member, owner) == other_side

\* what appending member to owner's collection does to the collection on the
\* other side, which the relationship names as its backref: it gains the owner
backref(other_side, member, owner) == other_side \cup {<<member, owner>>}

\* variant of association_insert: the new row replaces the table's rows
association_overwrite(table, row) == {row}

\* the association table after the flush of one new membership
association_insert(table, row) == table \cup {row}

\* s.files.append(f)
SubworldFilesAppend(s, f) ==
  /\ s \in subworld /\ f \in file
  /\ subworld_files' = subworld_files \cup {<<s.id, f.id>>}
  /\ file_subworlds' = backref(file_subworlds, f.id, s.id)
  /\ subworld_file_association' =
       association_insert(subworld_file_association, [subworld_id |-> s.id, file_id |-> f.id])
  /\ last' = Call("Subworld.files.append", <<s.id, f.id>>, "None", NoObject)
  /\ UNCHANGED <<entities, protocol_file_association, protocol_files, file_protocols,
                 fk_enforced, io, arg>>

\* f.subworlds.append(s)
FileSubworldsAppend(f, s) ==
  /\ s \in subworld /\ f \in file
  /\ file_subworlds' = file_subworlds \cup {<<f.id, s.id>>}
  /\ subworld_files' = backref(subworld_files, s.id, f.id)
  /\ subworld_file_association' =
       association_insert(subworld_file_association, [subworld_id |-> s.id, file_id |-> f.id])
  /\ last' = Call("File.subworlds.append", <<f.id, s.id>>, "None", NoObject)
  /\ UNCHANGED <<entities, protocol_file_association, protocol_files, file_protocols,
                 fk_enforced, io, arg>>

\* p.files.append(f)
ProtocolFilesAppend(p, f) ==
  /\ p \in protocol /\ f \in file
  /\ protocol_files' = protocol_files \cup {<<p.id, f.id>>}
  /\ file_protocols' = backref(file_protocols, f.id, p.id)
  /\ protocol_file_association' =
       association_insert(protocol_file_association, [protocol_id |-> p.id, file_id |-> f.id])
  /\ last' = Call("Protocol.files.append", <<p.id, f.id>>, "None", NoObject)
  /\ UNCHANGED <<entities, subworld_file_association, subworld_files, file_subworlds,
                 fk_enforced, io, arg>>

\* f.protocols.append(p)
FileProtocolsAppend(f, p) ==
  /\ p \in protocol /\ f \in file
  /\ file_protocols' = file_protocols \cup {<<f.id, p.id>>}
  /\ protocol_files' = backref(protocol_files, p.id, f.id)
  /\ protocol_file_association' =
       association_insert(protocol_file_association, [protocol_id |-> p.id, file_id |-> f.id])
  /\ last' = Call("File.protocols.append", <<f.id, p.id>>, "None", NoObject)
  /\ UNCHANGED <<entities, subworld_file_association, subworld_files, file_subworlds,
                 fk_enforced, io, arg>>

\* f.save(data, directory, extension) on the File of row f; an absent
\* extension takes the default
Save(f, data, directory, extension) ==
  /\ f \in file
  /\ LET r == save(f, data, directory, Default(extension, SaveDefaultExtension))
     IN /\ io' = io \o r.calls
        /\ last' = Call("save", <<f, data, directory, extension>>, r.exc,
                        [calls |-> r.calls])
  /\ UNCHANGED <<entities, rel, fk_enforced, arg>>

Tick == nops < MaxOps /\ nops' = nops + 1
NoTick == UNCHANGED nops

EmptyCatalog ==
  /\ client = {} /\ file = {} /\ annotation = {} /\ subworld = {} /\ protocol = {}
  /\ subworld_file_association = {} /\ protocol_file_association = {}
  /\ subworld_files = {} /\ file_subworlds = {}
  /\ protocol_files = {} /\ file_protocols = {}
  /\ fk_enforced \in BOOLEAN
  /\ io = <<>>
  /\ last = Call("none", <<>>, "None", NoObject)
  /\ nops = 0

(***************************************************************************)
(* SpecSig: one signature, drawn from the bounded set Signatures, is given *)
(* to client_id_from_signature, to Client and to File.                     *)
(***************************************************************************)
SigAlphabet == {"0", "1", "7", "S", "-", "+", " "}
Tags == {<<"n", "d", "1", "S">>, <<"n", "d", "2", "S">>}
Signatures ==
  SeqsUpTo(SigAlphabet, TagLen)
    \cup {t \o s : t \in Tags, s \in SeqsUpTo(SigAlphabet, MaxSuffixLen)}

\* a well-formed signature that fills the catalog beside the drawn one
OtherSignature == <<"n", "d", "1", "S", "0", "1">>

InitSig == EmptyCatalog /\ arg \in Signatures

NextSig ==
  \/ DeriveId(arg) /\ NoTick
  \/ AddClient(arg) /\ NoTick
  \/ AddFile("p1", arg, <<"a">>) /\ NoTick
  \/ AddClient(OtherSignature) /\ NoTick
  \/ AddFile("p2", OtherSignature, <<"b">>) /\ NoTick

SpecSig == InitSig /\ [][NextSig]_vars

(***************************************************************************)
(* Claims about the derivation of the client id (under SpecSig).           *)
(***************************************************************************)
IsDigits(s) == s # <<>> /\ \A i \in 1..Len(s) : s[i] \in Digit

RECURSIVE Pow10(_)
Pow10(n) == IF n = 0 THEN 1 ELSE 10 * Pow10(n - 1)

RECURSIVE PositionalSum(_, _)
PositionalSum(ds, i) ==
  IF i > Len(ds) THEN 0
  ELSE DigitValue(ds[i]) * Pow10(Len(ds) - i) + PositionalSum(ds, i + 1)

\* the integer a run of decimal digits denotes
NumberOf(ds) == PositionalSum(ds, 1)

Suffix(signature) == SubSeq(signature, 5, Len(signature))
TagThenDigits(signature) == Len(signature) >= 5 /\ IsDigits(Suffix(signature))

\* the signature a recorded call was given
SignatureOf(call) == IF call.op = "File" THEN call.args[2] ELSE call.args[1]
OnSignature(call) == call.op \in {"client_id_from_signature", "Client", "File"}

\* C1: for a signature made of a 4-character tag and a non-empty run of
\* decimal digits, client_id_from_signature returns the integer the digits
\* denote, Client(s).id and File(presentation, s, path).client_id are that
\* same integer, and so are the stored rows built from s.
C1_IdIsTheDigits ==
  TagThenDigits(arg) =>
    LET n == NumberOf(Suffix(arg))
    IN /\ (OnSignature(last) /\ SignatureOf(last) = arg) =>
            /\ last.exc # "ValueError"
            /\ last.op = "client_id_from_signature" => last.obj.id = n
            /\ last.op = "Client" => last.obj.id = n
            /\ last.op = "File" => last.obj.client_id = n
       /\ \A c \in client : c.signature = arg => c.id = n
       /\ \A f \in file : f.presentation = "p1" => f.client_id = n
       /\ \A f \in file, c \in client :
            (f.presentation = "p1" /\ c.signature = arg) => f.client_id = c.id

\* a File and a Client built from "nd2S017" are both stored with id 17
C1_Witness ==
  /\ arg = <<"n", "d", "2", "S", "0", "1", "7">>
  /\ \E c \in client : c.signature = arg /\ c.id = 17
  /\ \E f \in file : f.presentation = "p1" /\ f.client_id = 17
  /\ last.op = "File" /\ last.exc = "None"

\* a suffix is numeric when it denotes a decimal integer: a non-empty run of
\* digits, with at most one sign before it and blanks around it
Unsigned(s) == IsDigits(s)
Signed(s) == Unsigned(s) \/ (s # <<>> /\ s[1] \in {"+", "-"} /\ Unsigned(Tail(s)))
Numeric(s) ==
  \E i \in 1..Len(s) : \E j \in i..Len(s) :
    /\ \A k \in 1..Len(s) : (k < i \/ k > j) => s[k] = " "
    /\ Signed(SubSeq(s, i, j))

Malformed(signature) == Len(signature) < 5 \/ ~Numeric(Suffix(signature))

\* C2: for a signature shorter than 5 characters, or whose suffix from
\* offset 4 on is not numeric, client_id_from_signature, Client and File
\* raise at the call: no object is produced and no table changes.
C2_MalformedFails ==
  [][(Malformed(arg) /\ OnSignature(last') /\ SignatureOf(last') = arg) =>
       /\ last'.exc = "ValueError"
       /\ last'.obj = NoObject
       /\ tables' = tables]_vars

\* File fails on a signature of exactly 4 characters, the catalog holding rows
C2_Witness ==
  /\ Len(arg) = 4
  /\ last.op = "File" /\ last.args[2] = arg /\ last.exc = "ValueError"
  /\ client # {} /\ file # {}

(***************************************************************************)
(* SpecPath: a File whose path is drawn from the bounded set PathStrings,  *)
(* and make_path on it with every directory and extension of OptStrings.   *)
(***************************************************************************)
PathAlphabet == {Sep, "a"}
PathStrings == SeqsUpTo(PathAlphabet, MaxPathLen)
OptStrings == {None} \cup {PyStr(s) : s \in PathStrings}

InitPath == EmptyCatalog /\ arg \in PathStrings

NextPath ==
  \/ AddClient(OtherSignature) /\ NoTick
  \/ AddFile("p1", OtherSignature, arg) /\ NoTick
  \/ \E f \in file, d \in OptStrings, e \in OptStrings : MakePath(f, d, e) /\ NoTick

SpecPath == InitPath /\ [][NextPath]_vars

\* the text an optional argument stands for: "" for None
TextOf(x) == IF x = None THEN <<>> ELSE x[2]
DoubledSep(s) == \E i \in 1..(Len(s) - 1) : s[i] = Sep /\ s[i + 1] = Sep
StartsWithSep(s) == s # <<>> /\ s[1] = Sep
EndsWithSep(s) == s # <<>> /\ s[Len(s)] = Sep

\* C3 as stated: with no directory and no extension make_path returns the
\* stored path; with a non-empty directory d and extension e it returns d, one
\* separator, the path, then e, with no doubled separator; the stored path
\* is left as it was.
C3_AsStated ==
  last.op = "make_path" =>
    LET f == last.args[1]
        d == TextOf(last.args[2])
        e == TextOf(last.args[3])
    IN /\ (d = <<>> /\ e = <<>>) => last.obj.ret = f.path
       /\ (d # <<>> /\ e # <<>>) =>
            /\ last.obj.ret = d \o <<Sep>> \o f.path \o e
            /\ ~DoubledSep(last.obj.ret)
       /\ f \in file

\* C3 (amended): with no directory and no extension (absent or empty)
\* make_path returns the stored path.  With a non-empty directory d, writing
\* b for the path followed by the extension: when b starts with a separator
\* the result is b alone; otherwise, when d ends with a separator, it is d
\* then b; otherwise it is d, one separator, then b.  The result has a
\* doubled separator only when d or b has one.  The stored path is left as
\* it was.
C3_JoinCases ==
  last.op = "make_path" =>
    LET f == last.args[1]
        d == TextOf(last.args[2])
        b == f.path \o TextOf(last.args[3])
        ret == last.obj.ret
    IN /\ d = <<>> => ret = b
       /\ (d # <<>> /\ StartsWithSep(b)) => ret = b
       /\ (d # <<>> /\ ~StartsWithSep(b) /\ EndsWithSep(d)) => ret = d \o b
       /\ (d # <<>> /\ ~StartsWithSep(b) /\ ~EndsWithSep(d)) => ret = d \o <<Sep>> \o b
       /\ DoubledSep(ret) => (DoubledSep(d) \/ DoubledSep(b))
       /\ f \in file

\* make_path("a", "a") on the path "a" gives "a/aa", the three-part join
C3_Witness ==
  /\ last.op = "make_path"
  /\ last.args[1].path = <<"a">>
  /\ last.args[2] = PyStr(<<"a">>) /\ last.args[3] = PyStr(<<"a">>)
  /\ last.obj.ret = <<"a", Sep, "a", "a">>

(***************************************************************************)
(* SpecEyes: Annotation on an eyes sequence drawn from sequences of        *)
(* EyeValues of length 0 to MaxEyesLen.                                    *)
(***************************************************************************)
EyeValues == {PyInt(3), PyStr(<<"1", "7">>), PyStr(<<"x">>), HalfFloat(5)}
FileRefs == 1..MaxFiles

InitEyes == EmptyCatalog /\ arg \in SeqsUpTo(EyeValues, MaxEyesLen)

NextEyes ==
  \/ AddFile("p1", OtherSignature, <<"a">>) /\ NoTick
  \/ \E ref \in FileRefs : AddAnnotation(ref, arg) /\ NoTick

SpecEyes == InitEyes /\ [][NextEyes]_vars

Constructed(call) == call.exc \in {"None", "IntegrityError"}

\* C4 as stated: Annotation fails for every eyes sequence whose length is not
\* 4 and produces no Annotation; for every sequence of length 4 it succeeds
\* with re_x, re_y, le_x, le_y = int(eyes[0..3]) and file_id = file_reference.
C4_AsStated ==
  last.op = "Annotation" =>
    LET ref == last.args[1]
        eyes == last.args[2]
    IN /\ Len(eyes) # 4 => (~Constructed(last) /\ last.obj = NoObject)
       /\ Len(eyes) = 4 =>
            /\ Constructed(last)
            /\ last.obj = [file_id |-> ref, re_x |-> int(eyes[1]).v, re_y |-> int(eyes[2]).v,
                           le_x |-> int(eyes[3]).v, le_y |-> int(eyes[4]).v]

\* C4 (amended): Annotation fails for every eyes sequence whose length is not
\* 4, and for every sequence of length 4 one of whose values int() rejects;
\* it then produces no Annotation and stores no row.  For every sequence of
\* length 4 whose four values int() accepts it succeeds with re_x, re_y,
\* le_x, le_y = int(eyes[0..3]) and file_id = file_reference.
C4_ArityAndCoercion ==
  [][last'.op = "Annotation" =>
       LET ref == last'.args[1]
           eyes == last'.args[2]
           accepted == Len(eyes) = 4 /\ \A i \in 1..4 : int(eyes[i]).ok
       IN /\ ~accepted =>
               /\ ~Constructed(last') /\ last'.obj = NoObject
               /\ annotation' = annotation
          /\ accepted =>
               /\ Constructed(last')
               /\ last'.obj = [file_id |-> ref, re_x |-> int(eyes[1]).v,
                               re_y |-> int(eyes[2]).v, le_x |-> int(eyes[3]).v,
                               le_y |-> int(eyes[4]).v]]_vars

\* Annotation(1, (3, "17", 2.5, 3)) is stored with re = (3, 17), le = (2, 3)
C4_Witness ==
  /\ arg = <<PyInt(3), PyStr(<<"1", "7">>), HalfFloat(5), PyInt(3)>>
  /\ last.op = "Annotation" /\ last.exc = "None"
  /\ \E a \in annotation :
       a.file_id = 1 /\ a.re_x = 3 /\ a.re_y = 17 /\ a.le_x = 2 /\ a.le_y = 3

(***************************************************************************)
(* Sample inputs of the catalog specifications.                            *)
(***************************************************************************)
\* "nd1S01" and "nd2S01" differ in the tag only; "nd1S07" is another client
SampleSignatures ==
  {OtherSignature, <<"n", "d", "2", "S", "0", "1">>, <<"n", "d", "1", "S", "0", "7">>}
Presentations == {"p1", "p2"}
SamplePaths == {<<"a">>, <<"b">>}
SampleFiles == {<<"p1", <<"a">>>>, <<"p2", <<"b">>>>}
SampleEyes == {<<PyInt(3), PyInt(3), PyInt(3), PyInt(3)>>, <<PyInt(3), PyInt(3), PyInt(3)>>}

(***************************************************************************)
(* SpecStore: insertions of Clients, Files and Annotations.                *)
(***************************************************************************)
NextStore ==
  \/ \E s \in SampleSignatures : AddClient(s) /\ NoTick
  \/ \E p \in Presentations, s \in SampleSignatures, path \in SamplePaths :
       AddFile(p, s, path) /\ NoTick
  \/ \E ref \in FileRefs, eyes \in SampleEyes : AddAnnotation(ref, eyes) /\ NoTick

InitStore == EmptyCatalog /\ arg = <<>>

SpecStore == InitStore /\ [][NextStore]_vars

\* C7: each stored File has at most one Annotation row referencing it.
C7_AtMostOneAnnotation ==
  \A f \in file : Cardinality({a \in annotation : a.file_id = f.id}) <= 1

ClientsOf(f) == {c \in client : c.id = f.client_id}

DuplicatesClient(obj) ==
  \E c \in client : c.id = obj.id \/ c.signature = obj.signature
DuplicatesFile(obj) ==
  \E f \in file : f.path = obj.path \/ f.presentation = obj.presentation

\* C9: no two stored Clients share an id or a signature and no two stored
\* Files share a path or a presentation; the insertion of a Client or a File
\* that duplicates a stored value of one of these columns is rejected at the
\* insertion and changes no table.
C9_UniqueColumns ==
  /\ [](/\ \A c1 \in client, c2 \in client :
             (c1.id = c2.id \/ c1.signature = c2.signature) => c1 = c2
        /\ \A f1 \in file, f2 \in file :
             (f1.path = f2.path \/ f1.presentation = f2.presentation) => f1 = f2)
  /\ [][/\ (last'.op = "Client" /\ Constructed(last') /\ DuplicatesClient(last'.obj)) =>
             (last'.exc = "IntegrityError" /\ tables' = tables)
        /\ (last'.op = "File" /\ Constructed(last') /\ DuplicatesFile(last'.obj)) =>
             (last'.exc = "IntegrityError" /\ tables' = tables)]_vars

\* Client("nd2S01") is rejected while Client("nd1S01") is stored: same id 1
C9_Witness ==
  /\ last.op = "Client" /\ last.exc = "IntegrityError"
  /\ last.args[1] = <<"n", "d", "2", "S", "0", "1">>
  /\ \E c \in client : c.signature = OtherSignature /\ c.id = last.obj.id
  /\ \A c \in client : c.signature # last.args[1]

(***************************************************************************)
(* SpecRel: Files, Subworlds, Protocols and the memberships between them.  *)
(***************************************************************************)
NextRel ==
  \/ \E sf \in SampleFiles : AddFile(sf[1], OtherSignature, sf[2]) /\ NoTick
  \/ AddSubworld("x1") /\ NoTick
  \/ AddProtocol("Good", "probe") /\ NoTick
  \/ \E s \in subworld, f \in file : SubworldFilesAppend(s, f) /\ NoTick
  \/ \E s \in subworld, f \in file : FileSubworldsAppend(f, s) /\ NoTick
  \/ \E q \in protocol, f \in file : ProtocolFilesAppend(q, f) /\ NoTick
  \/ \E q \in protocol, f \in file : FileProtocolsAppend(f, q) /\ NoTick

\* the store does not enforce foreign keys (the default of SQLite), so that a
\* File is stored without its Client
InitRel == EmptyCatalog /\ fk_enforced = FALSE /\ arg = <<>>

SpecRel == InitRel /\ [][NextRel]_vars

\* C6: a File is in a Subworld's files exactly when the Subworld is in the
\* File's subworlds, and exactly when the association table holds the pair;
\* the same for a Protocol's files and a File's protocols.
C6_ViewsAgree ==
  /\ \A s \in subworld, f \in file :
       /\ <<s.id, f.id>> \in subworld_files <=> <<f.id, s.id>> \in file_subworlds
       /\ <<s.id, f.id>> \in subworld_files <=>
            [subworld_id |-> s.id, file_id |-> f.id] \in subworld_file_association
  /\ \A q \in protocol, f \in file :
       /\ <<q.id, f.id>> \in protocol_files <=> <<f.id, q.id>> \in file_protocols
       /\ <<q.id, f.id>> \in protocol_files <=>
            [protocol_id |-> q.id, file_id |-> f.id] \in protocol_file_association

\* File 1 was added to Subworlds 1 and 2, once from each side: both hold it
\* and its subworlds are both
C6_Witness ==
  /\ {<<1, 1>>, <<2, 1>>} \subseteq subworld_files
  /\ {<<1, 1>>, <<1, 2>>} \subseteq file_subworlds
  /\ last.op = "File.subworlds.append"
  /\ \E q \in protocol : <<1, q.id>> \in file_protocols

(***************************************************************************)
(* Spec: every operation of the catalog, in runs of at most MaxOps calls.  *)
(***************************************************************************)
SampleDirectories == {None, PyStr(<<"d">>)}
SampleExtensions == {None, PyStr(<<".", "e">>)}

Init == EmptyCatalog /\ arg = <<>>

Next ==
  \/ \E s \in {OtherSignature, <<"n", "d", "1">>} : AddClient(s) /\ Tick
  \/ \E sf \in SampleFiles : AddFile(sf[1], OtherSignature, sf[2]) /\ Tick
  \/ \E eyes \in SampleEyes : AddAnnotation(1, eyes) /\ Tick
  \/ AddSubworld("x1") /\ Tick
  \/ AddProtocol("Good", "probe") /\ Tick
  \/ \E s \in subworld, f \in file : SubworldFilesAppend(s, f) /\ Tick
  \/ \E s \in subworld, f \in file : FileSubworldsAppend(f, s) /\ Tick
  \/ \E q \in protocol, f \in file : ProtocolFilesAppend(q, f) /\ Tick
  \/ \E q \in protocol, f \in file : FileProtocolsAppend(f, q) /\ Tick
  \/ \E f \in file, d \in SampleDirectories, e \in SampleExtensions :
       MakePath(f, d, e) /\ Tick
  \/ \E f \in file, d \in SampleDirectories, e \in {Absent, PyStr(<<".", "e">>)} :
       Save(f, "blob", d, e) /\ Tick

Spec == Init /\ [][Next]_vars

\* C5: every call of save returns, and by then the storage collaborator has
\* been asked, in this order, to make the directory of
\* make_path(directory, extension) and to save the data at exactly that path.
C5_SaveReachesSerialize ==
  last.op = "save" =>
    LET f == last.args[1]
        path == make_path(f, last.args[3], Default(last.args[4], SaveDefaultExtension))
    IN /\ last.exc = "None"
       /\ last.obj.calls = << <<"makedirs_safe", os_path_dirname(path)>>,
                              <<"save", last.args[2], path>> >>

\* C10: in every step each stored row stays as it is and each membership
\* stays; make_path and save change no table at all.
C10_GrowOnly ==
  [][/\ client \subseteq client' /\ file \subseteq file'
     /\ annotation \subseteq annotation'
     /\ subworld \subseteq subworld' /\ protocol \subseteq protocol'
     /\ subworld_files \subseteq subworld_files'
     /\ file_subworlds \subseteq file_subworlds'
     /\ protocol_files \subseteq protocol_files'
     /\ file_protocols \subseteq file_protocols'
     /\ subworld_file_association \subseteq subworld_file_association'
     /\ protocol_file_association \subseteq protocol_file_association'
     /\ last'.op \in {"make_path", "save"} => tables' = tables]_vars

\* make_path with a directory is called on a File that is a member of a
\* Subworld and of a Protocol
C10_Witness ==
  /\ last.op = "make_path" /\ last.obj.ret = <<"d", Sep, "a">>
  /\ <<1, 1>> \in subworld_files /\ <<1, 1>> \in file_protocols

====
